---------------------------- MODULE Spec2Model ----------------------------
(***************************************************************************)
(* Set2Set (torch_geometric/nn/glob/set2set.py): global pooling by         *)
(* iterative content-based attention.                                      *)
(*                                                                         *)
(* A tensor is a record [shape, data]: data is the row-major flat storage, *)
(* so that view() keeps the storage and changes the shape only.            *)
(* Numbers are integers on a grid: features are integers, exp is base 2 in *)
(* fixed point (Exp(0) = ExpOne stands for 1), an attention weight is the  *)
(* exact fraction [num, den], and the readout is rounded to the grid once. *)
(* The LSTM is torch's: it is modelled as a deterministic saturating cell  *)
(* with explicit (hidden, cell) state, applied to every set independently. *)
(***************************************************************************)
EXTENDS Integers, Sequences, FiniteSets, TLC

\* ------------------------------------------------------------------ bounds
MaxN == 3
MaxCells == 4
MaxT == 2
CellMax == 2
ChannelArgs == {-1, 0, 1, 2}
LayerArgs == {0, 1, 2}
StepArgs == (-1) .. MaxT
XDom == {0, 1}
WDom == {-1, 1}

MaxOf(S) == CHOOSE m \in S : \A v \in S : v <= m
XMax == MaxOf(XDom)
ExpShift == MaxOf(ChannelArgs) * XMax

\* ----------------------------------------------------------- arithmetic
RECURSIVE SumSeq(_)
SumSeq(s) == IF s = <<>> THEN 0 ELSE Head(s) + SumSeq(Tail(s))

RECURSIVE Prod(_)
Prod(s) == IF s = <<>> THEN 1 ELSE Head(s) * Prod(Tail(s))

RECURSIVE Pow2(_)
Pow2(n) == IF n <= 0 THEN 1 ELSE 2 * Pow2(n - 1)

Clamp(v, lo, hi) == IF v < lo THEN lo ELSE IF v > hi THEN hi ELSE v

\* exp on the score grid, base 2, scaled by 2^ExpShift so that it is integral
Exp(n) == Pow2(n + ExpShift)
ExpOne == Exp(0)

\* n / d rounded to the nearest grid point (d > 0)
RoundDiv(n, d) == (2 * n + d) \div (2 * d)

\* ---------------------------------------------------------------- tensors
NoTensor == [shape |-> <<0>>, data |-> <<>>]
Zeros(shape) == [shape |-> shape, data |-> [k \in 1 .. Prod(shape) |-> 0]]
View(t, shape) == [shape |-> shape, data |-> t.data]

\* ------------------------------------------------------------- to_batch
\* torch_geometric.utils.to_batch(x, batch): the elements of every set, in
\* input order, zero-padded to the largest set; second value: the set sizes.
Members(bt, b) == SelectSeq([k \in 1 .. Len(bt) |-> k], LAMBDA k : bt[k] = b)

to_batch(xt, bt) ==
    LET C == xt.shape[2]
        B == MaxOf({bt[k] : k \in 1 .. Len(bt)}) + 1
        nn == [b \in 1 .. B |-> Len(Members(bt, b - 1))]
        M == MaxOf({nn[b] : b \in 1 .. B})
        cell(k) ==
            LET b == (k - 1) \div (M * C)
                j == ((k - 1) \div C) % M
                c == ((k - 1) % C) + 1
            IN  IF j < nn[b + 1]
                THEN xt.data[(Members(bt, b)[j + 1] - 1) * C + c]
                ELSE 0
    IN  [x |-> [shape |-> <<B, M, C>>, data |-> [k \in 1 .. B * M * C |-> cell(k)]],
         num_nodes |-> nn]

\* ----------------------------------------------------------- torch.nn.LSTM
Weights == [wi : WDom, wr : {1}, wh : {1}, b : {0, 1}]

\* torch.nn.LSTM(input_size, hidden_size, num_layers): what the constructor of
\* the installed torch can do with these sizes. A negative size cannot be
\* allocated; an LSTM with no unit or no layer is built by some releases and
\* refused by others.
LSTMCtorOutcomes(input_size, hidden_size, layers) ==
    IF hidden_size < 0 THEN {"error"}
    ELSE IF hidden_size = 0 \/ layers <= 0 THEN {"ok", "error"}
    ELSE {"ok"}

\* one unit of one layer: the cell accumulates its drive and saturates, the
\* hidden value is the squashed cell
LSTMUnit(w, drive, hp, cp) ==
    LET c2 == Clamp(cp + w.b + drive + w.wh * hp, -CellMax, CellMax)
    IN  [h |-> Clamp(c2, -1, 1), c |-> c2]

\* lstm(input, (h0, c0)) on a length-1 sequence: input (1, B, 2C), state
\* (L, B, C) twice; layer 1 reads the input, layer l > 1 the layer below.
LSTM(w, inp, st) ==
    LET B == inp.shape[2]
        I == inp.shape[3]
        L == st.h.shape[1]
        C == st.h.shape[3]
        at(l, b, k) == ((l - 1) * B + (b - 1)) * C + k
        lay[l \in 1 .. L, b \in 1 .. B] ==
            [k \in 1 .. C |->
                LSTMUnit(w,
                         IF l = 1
                         THEN w.wi * inp.data[(b - 1) * I + k]
                                  + w.wr * inp.data[(b - 1) * I + C + k]
                         ELSE w.wi * lay[l - 1, b][k].h,
                         st.h.data[at(l, b, k)],
                         st.c.data[at(l, b, k)])]
        lbk(n) == <<((n - 1) \div (B * C)) + 1, (((n - 1) \div C) % B) + 1, ((n - 1) % C) + 1>>
    IN  [out |-> [shape |-> <<1, B, C>>,
                  data |-> [n \in 1 .. B * C |->
                               lay[L, ((n - 1) \div C) + 1][((n - 1) % C) + 1].h]],
         st |-> [h |-> [shape |-> <<L, B, C>>,
                        data |-> [n \in 1 .. L * B * C |->
                                     lay[lbk(n)[1], lbk(n)[2]][lbk(n)[3]].h]],
                 c |-> [shape |-> <<L, B, C>>,
                        data |-> [n \in 1 .. L * B * C |->
                                     lay[lbk(n)[1], lbk(n)[2]][lbk(n)[3]].c]]]]

\* ------------------------------------------------------------------ state
VARIABLES
    op,                \* "none" | "ready" | "failed": the result of Set2Set(...)
    in_channels, out_channels, processing_steps, num_layers,
    weights,           \* the parameters self.lstm owns
    given,             \* history: the arguments the constructor was called with
    pc,                \* "idle" | "loop" | "done": where forward stands
    xin, batchin,      \* the arguments of the running (or last) forward call
    x, num_nodes,      \* to_batch's two results; forward drops the second
    h, q_star, i,      \* forward's locals; i counts the rounds completed
    q, e, a, r,        \* the locals of the latest round
    calls,             \* history: calls of self.lstm made by this forward call
    out,               \* the returned tensor
    again              \* history: an earlier forward call has returned

vars == <<op, in_channels, out_channels, processing_steps, num_layers, weights,
          given, pc, xin, batchin, x, num_nodes, h, q_star, i, q, e, a, r,
          calls, out, again>>

NoWeights == [wi |-> 0, wr |-> 0, wh |-> 0, b |-> 0]
NoState == [h |-> NoTensor, c |-> NoTensor]
NoArgs == [in_channels |-> 0, processing_steps |-> 0, num_layers |-> 0]

\* ------------------------------------------------------------ constructor
OutChannelsWrong(ic) == ic

\* self.out_channels = 2 * in_channels
OutChannels(ic) == 2 * ic

Blank ==
    /\ pc = "idle"
    /\ xin = NoTensor /\ batchin = <<>>
    /\ x = NoTensor /\ num_nodes = <<>>
    /\ h = NoState /\ q_star = NoTensor /\ i = 0
    /\ q = NoTensor /\ e = NoTensor /\ a = NoTensor /\ r = NoTensor
    /\ calls = 0 /\ out = NoTensor

Init ==
    /\ op = "none"
    /\ in_channels = 0 /\ out_channels = 0
    /\ processing_steps = 0 /\ num_layers = 0
    /\ weights = NoWeights
    /\ given = NoArgs
    /\ again = FALSE
    /\ Blank

frame == <<pc, xin, batchin, x, num_nodes, h, q_star, i, q, e, a, r, calls, out>>
config == <<in_channels, out_channels, processing_steps, num_layers, given>>

\* Set2Set(ic, ps, nl): no argument is checked here; only torch.nn.LSTM's
\* constructor can refuse.
Construct(ic, ps, nl) ==
    /\ op = "none"
    /\ given' = [in_channels |-> ic, processing_steps |-> ps, num_layers |-> nl]
    /\ \E res \in LSTMCtorOutcomes(OutChannels(ic), ic, nl) :
          IF res = "ok"
          THEN /\ op' = "ready"
               /\ in_channels' = ic
               /\ out_channels' = OutChannels(ic)
               /\ processing_steps' = ps
               /\ num_layers' = nl
               /\ weights' \in Weights
          ELSE /\ op' = "failed"
               /\ UNCHANGED <<in_channels, out_channels, processing_steps,
                              num_layers, weights>>
    /\ UNCHANGED <<frame, again>>

\* reset_parameters(): self.lstm draws a fresh initialisation; it runs between
\* forward calls
ResetParameters ==
    /\ op = "ready"
    /\ pc = "idle"
    /\ weights' \in Weights
    /\ UNCHANGED <<op, config, frame, again>>

\* ----------------------------------------------------------------- forward
NewStateOnes(B) ==
    LET one == [shape |-> <<num_layers, B, in_channels>>,
                data |-> [k \in 1 .. num_layers * B * in_channels |-> 1]]
    IN  [h |-> one, c |-> one]

\* h = (x.new_zeros((num_layers, batch_size, in_channels)), the same again)
NewState(B) ==
    [h |-> Zeros(<<num_layers, B, in_channels>>),
     c |-> Zeros(<<num_layers, B, in_channels>>)]

\* q_star = x.new_zeros(1, batch_size, out_channels)
NewQStar(B) == Zeros(<<1, B, out_channels>>)

LoopContinuesOffByOne == i <= processing_steps

\* for i in range(self.processing_steps)
LoopContinues == i < processing_steps

\* e = (x * q).sum(dim=-1): x (B, M, C) times q (B, 1, C) broadcast over M
Scores(xt, qt) ==
    LET B == xt.shape[1]
        M == xt.shape[2]
        C == xt.shape[3]
    IN  [shape |-> <<B, M>>,
         data |-> [k \in 1 .. B * M |->
                      SumSeq([c \in 1 .. C |->
                                 xt.data[(k - 1) * C + c]
                                     * qt.data[((k - 1) \div M) * C + c]])]]

SoftmaxMasked(et) ==
    LET B == et.shape[1]
        M == et.shape[2]
        real(k) == ((k - 1) % M) < num_nodes[((k - 1) \div M) + 1]
        den(b) == SumSeq([j \in 1 .. M |->
                             IF real(b * M + j) THEN Exp(et.data[b * M + j]) ELSE 0])
    IN  [shape |-> <<B, M>>,
         data |-> [k \in 1 .. B * M |->
                      [num |-> IF real(k) THEN Exp(et.data[k]) ELSE 0,
                       den |-> den((k - 1) \div M)]]]

SoftmaxDim0(et) ==
    LET B == et.shape[1]
        M == et.shape[2]
        den(j) == SumSeq([b \in 1 .. B |-> Exp(et.data[(b - 1) * M + j + 1])])
    IN  [shape |-> <<B, M>>,
         data |-> [k \in 1 .. B * M |->
                      [num |-> Exp(et.data[k]), den |-> den((k - 1) % M)]]]

\* a = torch.softmax(e, dim=-1): over the M positions of each set
Softmax(et) ==
    LET B == et.shape[1]
        M == et.shape[2]
        den(b) == SumSeq([j \in 1 .. M |-> Exp(et.data[b * M + j])])
    IN  [shape |-> <<B, M>>,
         data |-> [k \in 1 .. B * M |->
                      [num |-> Exp(et.data[k]), den |-> den((k - 1) \div M)]]]

\* r = (a * x).sum(dim=1, keepdim=True): a (B, M, 1) times x (B, M, C)
Readout(at, xt) ==
    LET B == xt.shape[1]
        M == xt.shape[2]
        C == xt.shape[3]
        val(b, c) ==
            RoundDiv(SumSeq([j \in 1 .. M |->
                                at.data[b * M + j].num * xt.data[(b * M + j - 1) * C + c]]),
                     at.data[b * M + 1].den)
    IN  [shape |-> <<B, 1, C>>,
         data |-> [k \in 1 .. B * C |-> val((k - 1) \div C, ((k - 1) % C) + 1)]]

CatSwapped(qt, rt) ==
    LET B == qt.shape[1]
        C == qt.shape[3]
    IN  [shape |-> <<B, 1, 2 * C>>,
         data |-> [k \in 1 .. B * 2 * C |->
                      LET b == (k - 1) \div (2 * C)
                          c == ((k - 1) % (2 * C)) + 1
                      IN  IF c <= C THEN rt.data[b * C + c] ELSE qt.data[b * C + c - C]]]

\* torch.cat([q, r], dim=-1): (B, 1, C) and (B, 1, C) give (B, 1, 2C)
Cat(qt, rt) ==
    LET B == qt.shape[1]
        C == qt.shape[3]
    IN  [shape |-> <<B, 1, 2 * C>>,
         data |-> [k \in 1 .. B * 2 * C |->
                      LET b == (k - 1) \div (2 * C)
                          c == ((k - 1) % (2 * C)) + 1
                      IN  IF c <= C THEN qt.data[b * C + c] ELSE rt.data[b * C + c - C]]]

OutShapeTransposed(B) == <<out_channels, B>>

\* q_star.view(batch_size, self.out_channels)
OutShape(B) == <<B, out_channels>>

\* the batch vectors tried: n elements grouped by set, the set ids 0 .. B-1
\* ascending and each used
Batches(n) ==
    {bt \in [1 .. n -> 0 .. n - 1] :
        bt[1] = 0 /\ \A k \in 1 .. n - 1 : bt[k + 1] \in {bt[k], bt[k] + 1}}

\* the numbers of elements tried: at most MaxN, at most MaxCells features in all
Sizes(C) == {n \in 1 .. MaxN : n * C <= MaxCells}

\* x, _ = to_batch(x, batch); batch_size, max_nodes, _ = x.size(); h, q_star.
\* What forward does on an operator whose LSTM has no unit or no layer is
\* torch's business and is left out: the call is followed for the others.
ForwardBegin(n, bt, xd) ==
    /\ op = "ready"
    /\ pc = "idle"
    /\ in_channels >= 1 /\ num_layers >= 1
    /\ LET xt == [shape |-> <<n, in_channels>>, data |-> xd]
           tb == to_batch(xt, bt)
           B == tb.x.shape[1]
       IN  /\ xin' = xt
           /\ batchin' = bt
           /\ x' = tb.x
           /\ num_nodes' = tb.num_nodes
           /\ h' = NewState(B)
           /\ q_star' = NewQStar(B)
    /\ i' = 0
    /\ calls' = 0
    /\ q' = NoTensor /\ e' = NoTensor /\ a' = NoTensor /\ r' = NoTensor
    /\ out' = NoTensor
    /\ pc' = "loop"
    /\ UNCHANGED <<op, config, weights, again>>

\* one round of the loop body
ForwardRound ==
    /\ pc = "loop"
    /\ LoopContinues
    /\ LET B == x.shape[1]
           M == x.shape[2]
           res == LSTM(weights, q_star, h)
           qn == View(res.out, <<B, 1, in_channels>>)
           en == Scores(x, qn)
           an == View(Softmax(en), <<B, M, 1>>)
           rn == Readout(an, x)
       IN  /\ h' = res.st
           /\ q' = qn
           /\ e' = en
           /\ a' = an
           /\ r' = rn
           /\ q_star' = View(Cat(qn, rn), <<1, B, out_channels>>)
    /\ calls' = calls + 1
    /\ i' = i + 1
    /\ UNCHANGED <<op, config, weights, pc, xin, batchin, x, num_nodes, out, again>>

\* q_star = q_star.view(batch_size, self.out_channels); return q_star
ForwardReturn ==
    /\ pc = "loop"
    /\ ~LoopContinues
    /\ q_star' = View(q_star, OutShape(x.shape[1]))
    /\ out' = q_star'
    /\ pc' = "done"
    /\ UNCHANGED <<op, config, weights, xin, batchin, x, num_nodes, h, i, q, e,
                   a, r, calls, again>>

\* forward has returned: its locals and its arguments are gone, the operator
\* keeps nothing of the call
Release ==
    /\ pc = "done"
    /\ pc' = "idle"
    /\ xin' = NoTensor /\ batchin' = <<>>
    /\ x' = NoTensor /\ num_nodes' = <<>>
    /\ h' = NoState /\ q_star' = NoTensor /\ i' = 0
    /\ q' = NoTensor /\ e' = NoTensor /\ a' = NoTensor /\ r' = NoTensor
    /\ calls' = 0 /\ out' = NoTensor
    /\ again' = TRUE
    /\ UNCHANGED <<op, config, weights>>

Forward ==
    \/ \E n \in Sizes(in_channels) : \E bt \in Batches(n) :
          \E xd \in [1 .. n * in_channels -> XDom] : ForwardBegin(n, bt, xd)
    \/ ForwardRound
    \/ ForwardReturn
    \/ Release

Next ==
    \/ \E ic \in ChannelArgs, ps \in StepArgs, nl \in LayerArgs : Construct(ic, ps, nl)
    \/ ResetParameters
    \/ Forward

Spec == Init /\ [][Next]_vars

\* ------------------------------------------------ forward as one function
\* The value forward computes from the operator's weights and one input
\* alone, starting from all-zero state: the rounds of the loop body unrolled.
RoundOf(w, xt, st, qs) ==
    LET B == xt.shape[1]
        M == xt.shape[2]
        res == LSTM(w, qs, st)
        qn == View(res.out, <<B, 1, in_channels>>)
        an == View(Softmax(Scores(xt, qn)), <<B, M, 1>>)
        rn == Readout(an, xt)
    IN  [st |-> res.st, qs |-> View(Cat(qn, rn), <<1, B, out_channels>>)]

RECURSIVE Rounds(_, _, _, _, _)
Rounds(w, xt, st, qs, t) ==
    IF t <= 0 THEN qs
    ELSE CHOOSE o \in {Rounds(w, xt, v.st, v.qs, t - 1) : v \in {RoundOf(w, xt, st, qs)}} :
             TRUE

ForwardFn(w, xt, bt) ==
    CHOOSE o \in {View(Rounds(w, tb.x, [h |-> z, c |-> z],
                              Zeros(<<1, tb.x.shape[1], out_channels>>),
                              processing_steps),
                       <<tb.x.shape[1], out_channels>>) :
                     tb \in {to_batch(xt, bt)},
                     z \in {Zeros(<<num_layers, 1 + MaxOf({bt[k] : k \in 1 .. Len(bt)}),
                                    in_channels>>)}} :
        TRUE

\* ------------------------------------------------------- reading a state
\* the number of sets of the input: the largest set id plus one
NumSets == MaxOf({batchin[k] : k \in 1 .. Len(batchin)}) + 1
\* the size of set s (1-based) and the largest size, counted on the input
SetSize(s) == Cardinality({k \in 1 .. Len(batchin) : batchin[k] = s - 1})
MaxSetSize == MaxOf({SetSize(s) : s \in 1 .. NumSets})
\* a round of the running (or returned) call has been completed
InRound == pc \in {"loop", "done"} /\ i >= 1
\* position j (1-based) of set s is padding: at or beyond the set's real size
IsPad(s, j) == j > num_nodes[s]
Pads == {sj \in (1 .. NumSets) \X (1 .. MaxSetSize) : IsPad(sj[1], sj[2])}
\* entry (s, j) of a (B, M) or (B, M, 1) tensor, row s of a (B, W) one
At2(t, s, j) == t.data[(s - 1) * MaxSetSize + j]
Row(t, s, width) == [k \in 1 .. width |-> t.data[(s - 1) * width + k]]
AllZero(t) == \A k \in 1 .. Len(t.data) : t.data[k] = 0

\* ------------------------------------------------------------------ claims

\* C1: a forward call that has returned has called self.lstm exactly
\* processing_steps times, one call per round, for every constructed operator.
C1_ExactlyStepsCalls ==
    pc = "done" => calls = processing_steps /\ i = processing_steps

\* C2: the constructor rejects in_channels <= 0, processing_steps <= 0 and
\* num_layers < 1: no operator with such a value exists.
C2_ValidatedAtConstruction ==
    op = "ready" => in_channels > 0 /\ processing_steps > 0 /\ num_layers >= 1

\* C3: in every round, every padding position of every set has attention
\* weight zero.
C3_PaddingWeightZero ==
    InRound => \A sj \in Pads : At2(a, sj[1], sj[2]).num = 0

\* C4: in every round every padding position has score 0 and enters the
\* softmax unmasked: its weight is exp(0) over a denominator that sums exp
\* over all max_set_size positions of the set, one exp(0) per padding
\* position; scores, weights and readout are those of the padded tensor alone.
C4_PaddingUnmasked ==
    InRound =>
        /\ e.shape = <<NumSets, MaxSetSize>>
        /\ a.shape = <<NumSets, MaxSetSize, 1>>
        /\ Len(a.data) = NumSets * MaxSetSize
        /\ \A s \in 1 .. NumSets :
              LET reals == SumSeq([j \in 1 .. SetSize(s) |-> Exp(At2(e, s, j))])
                  den == reals + (MaxSetSize - SetSize(s)) * ExpOne
              IN  /\ \A j \in 1 .. MaxSetSize :
                        /\ At2(e, s, j) =
                               SumSeq([c \in 1 .. in_channels |->
                                   x.data[((s - 1) * MaxSetSize + j - 1) * in_channels + c]
                                       * q.data[(s - 1) * in_channels + c]])
                        /\ At2(a, s, j).num = Exp(At2(e, s, j))
                        /\ At2(a, s, j).den = den
                        /\ IsPad(s, j) => At2(e, s, j) = 0 /\ At2(a, s, j).num = ExpOne
                  /\ \A c \in 1 .. in_channels :
                        r.data[(s - 1) * in_channels + c] =
                            RoundDiv(SumSeq([j \in 1 .. MaxSetSize |->
                                        Exp(At2(e, s, j))
                                            * x.data[((s - 1) * MaxSetSize + j - 1)
                                                         * in_channels + c]]),
                                     den)

\* a round has run on a batch with a padded set whose real scores are not all 0
C4_Witness ==
    /\ InRound
    /\ \E sj \in Pads : \E j \in 1 .. SetSize(sj[1]) : At2(e, sj[1], j) # 0

\* C8: with processing_steps = 0 forward calls self.lstm never and returns
\* the initial q*: all zeros, of shape (num_sets, 2 * in_channels).
C8_ZeroSteps ==
    pc = "done" /\ processing_steps = 0 =>
        /\ calls = 0
        /\ out.shape = <<NumSets, 2 * in_channels>>
        /\ Len(out.data) = NumSets * 2 * in_channels
        /\ AllZero(out)

\* a call has returned on an operator with no step, for weights that would
\* have produced a nonzero query
C8_Witness ==
    pc = "done" /\ processing_steps = 0 /\ weights.b = 1 /\ NumSets >= 2

\* C9: the output has shape (num_sets, 2C), one row per set, whatever
\* max_set_size and processing_steps; q* has 2C features per set at the start
\* of every round and after the last one.
C9_OutputShape ==
    /\ pc = "done" =>
          /\ out.shape = <<NumSets, 2 * in_channels>>
          /\ Len(out.data) = NumSets * 2 * in_channels
    /\ pc = "loop" =>
          /\ q_star.shape = <<1, NumSets, 2 * in_channels>>
          /\ Len(q_star.data) = NumSets * 2 * in_channels

\* a call on three sets and one on one set of three elements have returned
C9_Witness ==
    /\ pc = "done" /\ processing_steps = MaxT
    /\ NumSets # 2 * in_channels
    /\ MaxSetSize >= 2

\* C5: every call starts from its own all-zero hidden state, cell state and
\* q*, and what it returns is decided by the weights and (x, batch) alone:
\* it is the same whatever calls were made before.
C5_Deterministic ==
    /\ pc = "loop" /\ i = 0 =>
          /\ h.h.shape = <<num_layers, NumSets, in_channels>>
          /\ h.c.shape = <<num_layers, NumSets, in_channels>>
          /\ Len(h.h.data) = num_layers * NumSets * in_channels
          /\ Len(h.c.data) = num_layers * NumSets * in_channels
          /\ AllZero(h.h) /\ AllZero(h.c) /\ AllZero(q_star)
    /\ pc = "done" => out = ForwardFn(weights, xin, batchin)

\* a later call of the same operator has returned a nonzero output
C5_Witness ==
    pc = "done" /\ again /\ processing_steps >= 2 /\ ~AllZero(out)

\* C6: the configuration is the one given at construction and out_channels is
\* 2 * in_channels, after any calls; no step of a forward call changes the
\* weights of self.lstm.
C6_ConfigFixed ==
    /\ [](op = "ready" =>
             /\ in_channels = given.in_channels
             /\ processing_steps = given.processing_steps
             /\ num_layers = given.num_layers
             /\ out_channels = 2 * in_channels)
    /\ [][pc # "idle" \/ pc' # "idle" => weights' = weights]_vars

\* a second forward call has run all its rounds and returned
C6_Witness ==
    op = "ready" /\ again /\ pc = "done" /\ i = MaxT

\* the rows of an (n, C) tensor taken in the order sg
Reorder(t, sg) ==
    LET C == t.shape[2]
    IN  [shape |-> t.shape,
         data |-> [k \in 1 .. Len(t.data) |->
                      t.data[(sg[((k - 1) \div C) + 1] - 1) * C + ((k - 1) % C) + 1]]]

\* C7: relabelling the set ids by a permutation permutes the output rows the
\* same way; reordering the elements within sets leaves every row unchanged.
C7_Permutation ==
    pc = "done" =>
        LET n == Len(batchin)
            W == 2 * in_channels
        IN  /\ \A pi \in Permutations(0 .. NumSets - 1) :
                  \A b2 \in {[k \in 1 .. n |-> pi[batchin[k]]]} :
                      \A o2 \in {ForwardFn(weights, xin, b2)} :
                          \A s \in 0 .. NumSets - 1 :
                              Row(o2, pi[s] + 1, W) = Row(out, s + 1, W)
            /\ \A sg \in Permutations(1 .. n) :
                  (\A k \in 1 .. n : batchin[sg[k]] = batchin[k]) =>
                      \A x2 \in {Reorder(xin, sg)} :
                          ForwardFn(weights, x2, batchin) = out

\* a call has returned on a padded batch with a set of two different
\* elements, and the rows of two sets differ
C7_Witness ==
    /\ pc = "done" /\ processing_steps >= 1
    /\ \E k1, k2 \in 1 .. Len(batchin) :
          /\ batchin[k1] = batchin[k2]
          /\ Row(xin, k1, in_channels) # Row(xin, k2, in_channels)
    /\ Pads # {}
    /\ \E s1, s2 \in 1 .. NumSets :
          Row(out, s1, 2 * in_channels) # Row(out, s2, 2 * in_channels)

\* C10: round 1 starts from the all-zero q* and state; every round feeds
\* self.lstm the q* and state the round before left, scores with the new
\* query, normalises those scores, reads out with those weights and leaves
\* q || r as the next q*; the returned row of a set is q || r of the last round.
C10_Chained ==
    /\ [](pc = "loop" /\ i = 0 => AllZero(q_star) /\ AllZero(h.h) /\ AllZero(h.c))
    /\ [][pc = "loop" /\ i' = i + 1 =>
            LET res == LSTM(weights, q_star, h)
                C == in_channels
            IN  /\ q'.data = res.out.data
                /\ h' = res.st
                /\ e' = Scores(x, q')
                /\ a'.data = Softmax(e').data
                /\ r' = Readout(a', x)
                /\ \A s \in 1 .. NumSets :
                      Row(q_star', s, 2 * C) = Row(q', s, C) \o Row(r', s, C)]_vars
    /\ [](pc = "done" /\ processing_steps >= 1 =>
             \A s \in 1 .. NumSets :
                 Row(out, s, 2 * in_channels)
                     = Row(q, s, in_channels) \o Row(r, s, in_channels))

\* a call of two rounds has returned a row whose query and readout differ
C10_Witness ==
    /\ pc = "done" /\ i >= 2
    /\ \E s \in 1 .. NumSets :
          Row(q, s, in_channels) # Row(r, s, in_channels)

====
